---- MODULE Spec2Model ----
(***************************************************************************)
(* Model of RNNModel (src/mos-pytorch1.1/model.py): the mixture-of-softmax *)
(* language model container.  Tensors are modelled by their shape and an   *)
(* identity; every call the forward pass makes on a dropout component, a   *)
(* recurrent layer or a projection is recorded, in order, in a call log.   *)
(***************************************************************************)
EXTENDS Integers, Sequences, FiniteSets, TLC

VARIABLES self, rnns, params, result, head

vars == <<self, rnns, params, result, head>>

\* ------------------------------------------------------------------ bounds
\* Largest layer count, expert count and batch size tried; the length of the
\* token sequences; how many forward calls a hidden state is carried through;
\* how many in-place writes of a weight are followed.
MaxLayers == 2
MaxExperts == 1
MaxBatch == 2
SeqLen == 3
MaxGen == 1
MaxDraws == 4
\* The expert count and vocabulary size of the model whose head is computed
\* on numbers.
NumExperts == 2
VocabSize == 2

\* ------------------------------------------------------- constructor inputs
\* Hyper-parameter sets handed to the constructor.  Probabilities are in
\* percent.  The first is the configuration of the module's own entry point
\* (the signature's defaults); the second has pairwise distinct sizes and
\* probabilities and enables weight drop.
MainPreset ==
    [ntoken |-> 10, ninp |-> 12, nhid |-> 12, nhidlast |-> 12,
     dropout |-> 50, dropouth |-> 50, dropouti |-> 50, dropoute |-> 10,
     wdrop |-> 0, ldropout |-> 50]

DistinctPreset ==
    [ntoken |-> 5, ninp |-> 2, nhid |-> 3, nhidlast |-> 4,
     dropout |-> 40, dropouth |-> 30, dropouti |-> 65, dropoute |-> 10,
     wdrop |-> 50, ldropout |-> 29]

Presets == {MainPreset, DistinctPreset}

CtorArgs ==
    [hp : Presets, nlayers : 0..MaxLayers, n_experts : (-1)..MaxExperts,
     tie_weights : BOOLEAN]

\* ------------------------------------------------------------------ helpers
RECURSIVE Prod(_)
Prod(s) == IF s = <<>> THEN 1 ELSE Head(s) * Prod(Tail(s))

Last(s) == s[Len(s)]

Front(s) == SubSeq(s, 1, Len(s) - 1)

\* Tensor.view(shape) on a tensor of `numel` elements, where `shape` holds at
\* most one -1.  The result is [ok, shape].  The inferred dimension is
\* numel / (product of the others); it is an error when that product is 0 or
\* does not divide numel, and without -1 when the product differs from numel.
View(numel, shape) ==
    LET infer == {i \in 1..Len(shape) : shape[i] = -1}
        others == Prod([i \in 1..Len(shape) |->
                          IF shape[i] = -1 THEN 1 ELSE shape[i]])
    IN  IF infer = {}
        THEN [ok |-> others = numel, shape |-> shape]
        ELSE IF others = 0 \/ numel % others # 0
             THEN [ok |-> FALSE, shape |-> shape]
             ELSE [ok |-> TRUE,
                   shape |-> [i \in 1..Len(shape) |->
                                IF shape[i] = -1 THEN numel \div others
                                ELSE shape[i]]]

\* ------------------------------------------------------------- construction
\* Width of layer l's hidden state in a stack of n layers.
LayerWidth(l, n, nhid, nhidlast) == IF l # n - 1 THEN nhid ELSE nhidlast

\* The list of recurrent layers: layer l is an LSTM of input size ninp (l = 0)
\* or nhid, hidden size LayerWidth; wrapped in WeightDrop when wdrop is
\* non-zero.  The mc_eval attribute of a layer does not exist until a forward
\* call sets it: <<>> is "not set", <<v>> is "set to v".
MakeRnns(a) ==
    [i \in 1..(IF a.nlayers > 0 THEN a.nlayers ELSE 0) |->
        [kind |-> IF a.hp.wdrop # 0 THEN "WeightDrop" ELSE "LSTM",
         input_size |-> IF i - 1 = 0 THEN a.hp.ninp ELSE a.hp.nhid,
         hidden_size |-> LayerWidth(i - 1, a.nlayers, a.hp.nhid, a.hp.nhidlast),
         wdrop |-> a.hp.wdrop,
         mc_eval |-> <<>>]]

\* nn.Linear(nhidlast, n_experts) and nn.Linear(nhidlast, n_experts * ninp)
\* allocate their weights; a negative size makes the allocation raise.
CtorRaises(a) == a.n_experts < 0

\* The buffer the decoder's weight parameter refers to: the embedding table's
\* own buffer when the weights are tied, the decoder's own otherwise.
\* (DecoderRefFresh is the faulty variant in which the decoder always keeps a
\* buffer of its own.)
DecoderRefFresh(tie) == "decoder.weight"

DecoderRef(tie) == IF tie THEN "encoder.weight" ELSE "decoder.weight"

\* init_weights: uniform_ on the encoder's weight, fill_(0) on the decoder's
\* bias, uniform_ on the decoder's weight, each in place through the handle.
\* A uniform_ draw is named by its number: draw k writes the value k.
InitWeightsOn(p) ==
    LET p1 == [p EXCEPT !.buf[p.encoder] = p.draws + 1]
        p2 == [p1 EXCEPT !.bias = 0]
    IN  [p2 EXCEPT !.buf[p2.decoder] = p.draws + 2, !.draws = p.draws + 2]

\* The parameters after construction: both weights freshly allocated (value
\* -1: the library's default initialisation), the decoder tied if asked, then
\* init_weights.
MakeParams(a) ==
    InitWeightsOn(
        [encoder |-> "encoder.weight",
         decoder |-> DecoderRef(a.tie_weights),
         buf |-> [b \in {"encoder.weight", "decoder.weight"} |-> -1],
         bias |-> -1,
         draws |-> 0])

NoParams ==
    [encoder |-> "encoder.weight", decoder |-> "decoder.weight",
     buf |-> [b \in {"encoder.weight", "decoder.weight"} |-> -1],
     bias |-> -1, draws |-> 0]

\* The object's fields after __init__ (ok = FALSE: __init__ raised and no
\* object exists).  training is the module's mode, set by the base class.
MakeSelf(a) ==
    [ok |-> ~CtorRaises(a),
     training |-> TRUE,
     use_dropout |-> TRUE,
     tie_weights |-> a.tie_weights,
     ninp |-> a.hp.ninp, nhid |-> a.hp.nhid, nhidlast |-> a.hp.nhidlast,
     nlayers |-> a.nlayers,
     dropout |-> a.hp.dropout, dropouti |-> a.hp.dropouti,
     dropouth |-> a.hp.dropouth, dropoute |-> a.hp.dropoute,
     ldropout |-> a.hp.ldropout, dropoutl |-> a.hp.ldropout,
     n_experts |-> a.n_experts, ntoken |-> a.hp.ntoken,
     mc_eval |-> FALSE]

\* ------------------------------------------------------------ hidden state
\* One member of a (hidden, cell) pair: its shape, where it comes from
\* ("zero": init_hidden, "rnn": produced by a recurrent layer), the layer that
\* produced it and the number of forward calls it has been threaded through.
ZeroState(bsz, width, l) ==
    [shape |-> <<1, bsz, width>>, src |-> "zero", layer |-> l, gen |-> 0]

\* init_hidden(bsz): one (hidden, cell) pair of zeros per layer index in
\* range(nlayers), of width nhid except nhidlast for the last layer.
\* (InitHiddenCellNhid is the faulty variant whose cell tensors are all of
\* width nhid.)
InitHiddenCellNhid(s, bsz) ==
    [i \in 1..(IF s.nlayers > 0 THEN s.nlayers ELSE 0) |->
        <<ZeroState(bsz, LayerWidth(i - 1, s.nlayers, s.nhid, s.nhidlast), i - 1),
          ZeroState(bsz, s.nhid, i - 1)>>]

InitHidden(s, bsz) ==
    [i \in 1..(IF s.nlayers > 0 THEN s.nlayers ELSE 0) |->
        <<ZeroState(bsz, LayerWidth(i - 1, s.nlayers, s.nhid, s.nhidlast), i - 1),
          ZeroState(bsz, LayerWidth(i - 1, s.nlayers, s.nhid, s.nhidlast), i - 1)>>]

\* ------------------------------------------------------------ forward pass
\* A tensor computed during a forward call: its number in the call (the
\* position of the log entry that produced it) and its shape.
NoValue == [id |-> 0, shape |-> <<>>]

Numel(v) == Prod(v.shape)

\* One more entry of the call log: the source line, the component called, the
\* layer, the dropout probability and flags it is given, the tensors it reads
\* (in, in2: 0 for the token input or none), the hidden pair it is given and
\* the tensor it produces.
Call(log, line, op, layer, p, usedp, mc, in, in2, hid, shape) ==
    Append(log,
        [line |-> line, op |-> op, layer |-> layer, p |-> p, usedp |-> usedp,
         mc |-> mc, in |-> in, in2 |-> in2, hid |-> hid,
         out |-> [id |-> Len(log) + 1, shape |-> shape]])

Out(log) == Last(log).out

\* `p if self.use_dropout else 0` for each of the four lockdrop applications.
InputDropoutP(s) == IF s.use_dropout THEN s.dropouti ELSE 0

HiddenDropoutP(s) == IF s.use_dropout THEN s.dropouth ELSE 0

OutputDropoutP(s) == IF s.use_dropout THEN s.dropout ELSE 0

LatentDropoutP(s) == IF s.use_dropout THEN s.dropoutl ELSE 0

\* Line 94: rnn.mc_eval = self.mc_eval.
\* (KeepLayerMcEval is the faulty variant without the assignment.)
KeepLayerMcEval(rn, l, v) == rn

SetLayerMcEval(rn, l, v) == [rn EXCEPT ![l + 1].mc_eval = <<v>>]

\* Line 95: the state handed to layer l is hidden[l] of the argument list.
\* (LayerHiddenChained is the faulty variant that hands layer l the state the
\* previous layer produced.)
LayerHiddenChained(st, l) ==
    IF l > 0 THEN st.new_hidden[l] ELSE st.hidden[l + 1]

LayerHidden(st, l) == st.hidden[l + 1]

\* Line 103: `hidden = new_hidden` rebinds the local name; the list object the
\* caller passed keeps its entries.
ArgListAfterLayer(st, l, new_h) == st.hidden

\* Line 98: hidden dropout is applied unless l is the last layer.
\* (DropAfterEveryLayer is the faulty variant that also drops the last layer.)
DropAfterEveryLayer(l, s) == TRUE

DropAfterLayer(l, s) == l # s.nlayers - 1

\* The LSTM's argument check: the input's feature size is the layer's input
\* size, and both members of the hidden pair have shape (1, batch, hidden).
RnnArgsOk(layer, x, h) ==
    /\ x.shape[3] = layer.input_size
    /\ h[1].shape = <<1, x.shape[2], layer.hidden_size>>
    /\ h[2].shape = <<1, x.shape[2], layer.hidden_size>>

\* The pair a layer returns.
NewState(old, shape, l) ==
    [shape |-> shape, src |-> "rnn", layer |-> l, gen |-> old.gen + 1]

\* Lines 93-102: one iteration of the loop over the layers.
LayerStep(st, l, s) ==
    LET rn1 == SetLayerMcEval(st.rn, l, s.mc_eval)
        layer == rn1[l + 1]
        x == st.raw_output
    IN  IF l + 1 > Len(st.hidden)
        THEN [st EXCEPT !.rn = rn1, !.err = 95]
        ELSE
        LET h == LayerHidden(st, l)
        IN  IF ~RnnArgsOk(layer, x, h)
            THEN [st EXCEPT !.rn = rn1, !.err = 95]
            ELSE
            LET oshape == <<x.shape[1], x.shape[2], layer.hidden_size>>
                hshape == <<1, x.shape[2], layer.hidden_size>>
                log1 == Call(st.log, 95, layer.kind, l, layer.wdrop, FALSE,
                             layer.mc_eval, x.id, 0, h, oshape)
                raw == Out(log1)
                new_h == <<NewState(h[1], hshape, l), NewState(h[2], hshape, l)>>
                st1 == [st EXCEPT !.rn = rn1, !.log = log1,
                                  !.raw_output = raw,
                                  !.new_hidden = Append(@, new_h),
                                  !.raw_outputs = Append(@, raw),
                                  !.hidden = ArgListAfterLayer(st, l, new_h)]
            IN  IF DropAfterLayer(l, s)
                THEN LET log2 == Call(log1, 100, "lockdrop", l, HiddenDropoutP(s),
                                      FALSE, <<s.mc_eval>>, raw.id, 0, <<>>,
                                      raw.shape)
                     IN  [st1 EXCEPT !.log = log2, !.raw_output = Out(log2),
                                     !.outputs = Append(@, Out(log2))]
                ELSE st1

\* Line 92: for l, rnn in enumerate(self.rnns), stopping at the first error.
RECURSIVE RunLayers(_, _, _)
RunLayers(st, l, s) ==
    IF l >= Len(st.rn) \/ st.err # 0 THEN st
    ELSE RunLayers(LayerStep(st, l, s), l + 1, s)

\* Lines 120-124: the tensor returned is prob itself when return_prob is set;
\* otherwise 1e-8 is added to prob in place and the logarithm is taken.
\* (OutputStepAlwaysFloored is the faulty variant that adds the floor on both
\* paths.)
OutputStepAlwaysFloored(log, prob, return_prob) ==
    LET log1 == Call(log, 123, "add_(1e-8)", 0, 0, FALSE, <<>>, prob.id, 0,
                     <<>>, prob.shape)
    IN  IF return_prob THEN log1
        ELSE Call(log1, 123, "log", 0, 0, FALSE, <<>>, Out(log1).id, 0, <<>>,
                  prob.shape)

OutputStep(log, prob, return_prob) ==
    IF return_prob THEN log
    ELSE LET log1 == Call(log, 123, "add_(1e-8)", 0, 0, FALSE, <<>>, prob.id,
                          0, <<>>, prob.shape)
         IN  Call(log1, 123, "log", 0, 0, FALSE, <<>>, Out(log1).id, 0, <<>>,
                  prob.shape)

\* Line 126: model_output.view(-1, batch_size, self.ntoken).
OutputShape(batch_size, s) == <<-1, batch_size, s.ntoken>>

\* Lines 114, 117: the shapes the prior logits and the decoder logits are
\* viewed in for their softmax, and line 117's view of the result.
PriorViewShape(s) == <<-1, s.n_experts>>

\* (SoftmaxViewJoint is the faulty variant that normalises over experts and
\* vocabulary jointly.)
SoftmaxViewJoint(s) == <<-1, s.n_experts * s.ntoken>>

SoftmaxViewShape(s) == <<-1, s.ntoken>>

ExpertViewShape(s) == <<-1, s.n_experts, s.ntoken>>

\* Line 114: the prior is computed from `output`, the tensor after the output
\* dropout, not from raw_output.
\* (PriorInputRaw is the faulty variant that reads raw_output.)
PriorInputRaw(raw_output, output) == raw_output

PriorInput(raw_output, output) == output

\* Line 112: the decoder is applied to the latent viewed as rows of ninp.
LatentViewShape(s) == <<-1, s.ninp>>

\* expand_as: every dimension of the source equals the target's or is 1.
ExpandOk(src, dst) ==
    /\ Len(src) = Len(dst)
    /\ \A i \in 1..Len(src) : src[i] = dst[i] \/ src[i] = 1

\* Lines 105-126: output dropout and the mixture-of-softmaxes head.  Each LET
\* below is one statement; the first failing statement sets err to its line.
HeadSteps(st, s, batch_size, return_prob) ==
    LET log1 == Call(st.log, 105, "lockdrop", 0, OutputDropoutP(s), FALSE,
                     <<s.mc_eval>>, st.raw_output.id, 0, <<>>,
                     st.raw_output.shape)
        output == Out(log1)
        st1 == [st EXCEPT !.log = log1, !.outputs = Append(@, output)]
    IN  IF output.shape[3] # s.nhidlast THEN [st1 EXCEPT !.err = 109]
        ELSE
        LET log2 == Call(log1, 109, "latent", 0, 0, FALSE, <<>>, output.id, 0,
                         <<>>, <<output.shape[1], output.shape[2],
                                 s.n_experts * s.ninp>>)
            log3 == Call(log2, 110, "lockdrop", 0, LatentDropoutP(s), FALSE,
                         <<s.mc_eval>>, Out(log2).id, 0, <<>>, Out(log2).shape)
            latent == Out(log3)
            lview == View(Numel(latent), LatentViewShape(s))
        IN  IF ~lview.ok THEN [st1 EXCEPT !.log = log3, !.err = 112]
            ELSE
            LET log4 == Call(log3, 112, "decoder", 0, 0, FALSE, <<>>, latent.id,
                             0, <<>>, <<lview.shape[1], s.ntoken>>)
                logit == Out(log4)
                log5 == Call(log4, 114, "prior", 0, 0, FALSE, <<>>,
                             PriorInput(st.raw_output, output).id,
                             0, <<>>, <<output.shape[1], output.shape[2],
                                        s.n_experts>>)
                pview == View(Numel(Out(log5)), PriorViewShape(s))
            IN  IF ~pview.ok THEN [st1 EXCEPT !.log = log5, !.err = 114]
                ELSE
                LET log6 == Call(log5, 115, "softmax", 0, 0, FALSE, <<>>,
                                 Out(log5).id, 0, <<>>, pview.shape)
                    prior == Out(log6)
                    fview == View(Numel(logit), SoftmaxViewShape(s))
                    eview == View(Numel(logit), ExpertViewShape(s))
                IN  IF ~fview.ok \/ ~eview.ok
                    THEN [st1 EXCEPT !.log = log6, !.err = 117]
                    ELSE
                    LET log7 == Call(log6, 117, "softmax", 0, 0, FALSE, <<>>,
                                     logit.id, 0, <<>>, eview.shape)
                        experts == Out(log7)
                    IN  IF ~ExpandOk(<<prior.shape[1], prior.shape[2], 1>>,
                                     experts.shape)
                        THEN [st1 EXCEPT !.log = log7, !.err = 118]
                        ELSE
                        LET log8 == Call(log7, 118, "mix", 0, 0, FALSE, <<>>,
                                         experts.id, prior.id, <<>>,
                                         <<experts.shape[1], experts.shape[3]>>)
                            prob == Out(log8)
                            log9 == OutputStep(log8, prob, return_prob)
                            mo == IF log9 = log8 THEN prob ELSE Out(log9)
                            oview == View(Numel(mo), OutputShape(batch_size, s))
                        IN  IF ~oview.ok
                            THEN [st1 EXCEPT !.log = log9, !.err = 126]
                            ELSE [st1 EXCEPT
                                    !.log = log9,
                                    !.model_output =
                                        [id |-> mo.id, shape |-> oview.shape]]

\* Lines 76-130.  input is the shape (time, batch) of the token matrix.  The
\* value is the state of the call when it returns or raises: err is 0 or the
\* line that raised, rn the layers' attributes, hidden the caller's list.
Forward(s, rn, input, hidden, return_prob) ==
    LET batch_size == input[2]
        log1 == Call(<<>>, 80, "embedded_dropout", 0, s.dropoute,
                     s.training /\ s.use_dropout, <<s.mc_eval>>, 0, 0, <<>>,
                     <<input[1], input[2], s.ninp>>)
        log2 == Call(log1, 84, "lockdrop", 0, InputDropoutP(s), FALSE,
                     <<s.mc_eval>>, Out(log1).id, 0, <<>>, Out(log1).shape)
        st0 == [log |-> log2, rn |-> rn, raw_output |-> Out(log2),
                new_hidden |-> <<>>, raw_outputs |-> <<>>, outputs |-> <<>>,
                hidden |-> hidden, err |-> 0, model_output |-> NoValue]
        st1 == RunLayers(st0, 0, s)
    IN  IF st1.err # 0 THEN st1
        ELSE HeadSteps(st1, s, batch_size, return_prob)

\* ------------------------------------------------- the head, on numbers
\* The values of lines 105-126 on small tensors.  A tensor is its shape and
\* its elements in row-major order.  Activations and weights are integers;
\* logits are in units of ln 2, so that exp(x) is 2^x and a softmax is an
\* exact fraction <<numerator, denominator>> in lowest terms.
\* The tensor with no elements, and the head before any input is drawn.
EmptyT == [shape |-> <<>>, data |-> <<>>]

NoHead ==
    [phase |-> "none", raw |-> EmptyT, m1 |-> <<>>, m2 |-> <<>>, w1 |-> <<>>,
     b1 |-> <<>>, w3 |-> <<>>, wd |-> <<>>, bd |-> <<>>, output |-> EmptyT,
     latent |-> EmptyT, prior |-> EmptyT, experts |-> EmptyT, prob |-> EmptyT,
     model_output |-> EmptyT]

RECURSIVE GCD(_, _)
GCD(a, b) == IF b = 0 THEN a ELSE GCD(b, a % b)

Abs(x) == IF x < 0 THEN -x ELSE x

RNorm(n, d) == LET g == GCD(Abs(n), d) IN <<n \div g, d \div g>>

RAdd(x, y) ==
    LET l == (x[2] \div GCD(x[2], y[2])) * y[2]
    IN  RNorm(x[1] * (l \div x[2]) + y[1] * (l \div y[2]), l)

RMul(x, y) == RNorm(x[1] * y[1], x[2] * y[2])

RDiv(x, y) == RNorm(x[1] * y[2], x[2] * y[1])

\* The sum of the first n elements of a sequence of fractions, of integers.
RECURSIVE RSumTo(_, _)
RSumTo(seq, n) == IF n = 0 THEN <<0, 1>> ELSE RAdd(RSumTo(seq, n - 1), seq[n])

RSum(seq) == RSumTo(seq, Len(seq))

RECURSIVE ISumTo(_, _)
ISumTo(seq, n) == IF n = 0 THEN 0 ELSE ISumTo(seq, n - 1) + seq[n]

ISum(seq) == ISumTo(seq, Len(seq))

RECURSIVE Pow2(_)
Pow2(k) == IF k = 0 THEN 1 ELSE 2 * Pow2(k - 1)

\* exp of a logit of k units.
Exp2(k) == IF k >= 0 THEN <<Pow2(k), 1>> ELSE <<1, Pow2(-k)>>

\* Tensor.view on a tensor with elements: the shape changes, the elements
\* stay in their order.
ViewT(x, shape) == [shape |-> View(Len(x.data), shape).shape, data |-> x.data]

\* nn.Linear on the last dimension: w is the (out x in) weight, b the bias.
Linear(x, w, b) ==
    LET nin == Last(x.shape)
        nout == Len(w)
        rows == Len(x.data) \div nin
    IN  [shape |-> Front(x.shape) \o <<nout>>,
         data |-> [k \in 1..(rows * nout) |->
                     LET r == (k - 1) \div nout
                         o == ((k - 1) % nout) + 1
                     IN  ISum([i \in 1..nin |-> w[o][i] * x.data[r * nin + i]])
                         + b[o]]]

\* nn.Tanh where it is exact: the pre-activations are in units large enough
\* to saturate it, so that it gives -1, 0 or 1.
SignOf(v) == IF v > 0 THEN 1 ELSE IF v < 0 THEN -1 ELSE 0

Tanh(x) ==
    [shape |-> x.shape, data |-> [k \in 1..Len(x.data) |-> SignOf(x.data[k])]]

\* softmax(x, -1): over each run of consecutive elements of the last
\* dimension.
Softmax(x) ==
    LET n == Last(x.shape)
    IN  [shape |-> x.shape,
         data |-> [k \in 1..Len(x.data) |->
                     LET first == ((k - 1) \div n) * n
                     IN  RDiv(Exp2(x.data[k]),
                              RSum([j \in 1..n |-> Exp2(x.data[first + j])]))]]

\* prior.unsqueeze(2).expand_as(prob): element (p, e, v) is prior[p, e].
UnsqueezeExpand(prior, shape) ==
    [shape |-> shape,
     data |-> [k \in 1..Prod(shape) |-> prior.data[(k - 1) \div shape[3] + 1]]]

\* The elementwise product of two tensors of one shape.
Times(x, y) ==
    [shape |-> x.shape,
     data |-> [k \in 1..Len(x.data) |-> RMul(x.data[k], y.data[k])]]

\* x.sum(1) of a (P, E, V) tensor: element (p, v) is the sum over e.
Sum1(x) ==
    LET ne == x.shape[2]
        nv == x.shape[3]
    IN  [shape |-> <<x.shape[1], nv>>,
         data |-> [k \in 1..(x.shape[1] * nv) |->
                     LET q == (k - 1) \div nv
                         v == ((k - 1) % nv) + 1
                     IN  RSum([e \in 1..ne |->
                                 x.data[(q * ne + e - 1) * nv + v]])]]

\* LockedDropout with a drawn keep-mask of shape (1, batch, features), in the
\* mode without rescaling (mc_eval): every time step is multiplied by it.
LockDrop(x, mask) ==
    [shape |-> x.shape,
     data |-> [k \in 1..Len(x.data) |-> x.data[k] * mask[((k - 1) % Len(mask)) + 1]]]

\* Lines 105-126 with return_prob set.  h holds the raw output of the last
\* layer, the two dropout masks and the weights of the three projections.
HeadValues(s, h) ==
    LET batch_size == h.raw.shape[2]
        output == LockDrop(h.raw, h.m1)
        latent == LockDrop(Tanh(Linear(output, h.w1, h.b1)), h.m2)
        logit == Linear(ViewT(latent, LatentViewShape(s)), h.wd, h.bd)
        prior_logit == ViewT(Linear(PriorInput(h.raw, output), h.w3,
                                    [e \in 1..Len(h.w3) |-> 0]),
                             PriorViewShape(s))
        prior == Softmax(prior_logit)
        experts == ViewT(Softmax(ViewT(logit, SoftmaxViewShape(s))),
                         ExpertViewShape(s))
        prob == Sum1(Times(experts, UnsqueezeExpand(prior, experts.shape)))
    IN  [h EXCEPT !.phase = "done", !.output = output, !.latent = latent,
                  !.prior = prior, !.experts = experts, !.prob = prob,
                  !.model_output = ViewT(prob, OutputShape(batch_size, s))]

\* --------------------------------------------------------------- the calls
\* What the last call returned or raised.  op names the call; err is 0 or the
\* source line that raised; log is the call log of a forward call; nret is the
\* number of values returned (2, or 4 with return_h); arg is the hidden list
\* as the caller passed it and arg_after the same list object at the return;
\* mc is the model's mc_eval during the call.
Returned(op, err, log, mo, hid, raws, outs, nret, arg, after, input, bsz, mc, rh, rp, p0, p1) ==
    [op |-> op, err |-> err, log |-> log, model_output |-> mo,
     hidden |-> hid, raw_outputs |-> raws, outputs |-> outs, nret |-> nret,
     arg |-> arg, arg_after |-> after, input |-> input, bsz |-> bsz,
     mc |-> mc, return_h |-> rh, return_prob |-> rp,
     params_before |-> p0, params_after |-> p1]

\* The hidden lists a caller passes with a batch of b sequences: the list
\* init_hidden(b) gives, that list without its last entry, that list with one
\* more entry, and the list init_hidden(b + 1) gives.
CallerLists(s, b) ==
    LET good == InitHidden(s, b)
    IN  {good, InitHidden(s, b + 1),
         Append(good, <<ZeroState(b, s.nhid, Len(good)),
                        ZeroState(b, s.nhid, Len(good))>>)}
        \cup (IF good = <<>> THEN {} ELSE {Front(good)})

\* The list the last forward call returned, for the caller to carry on into
\* the next call, as long as its states have been through at most MaxGen
\* calls.
Carried ==
    IF /\ result.op = "forward" /\ result.err = 0
       /\ \A i \in 1..Len(result.hidden) :
            result.hidden[i][1].gen <= MaxGen /\ result.hidden[i][2].gen <= MaxGen
    THEN {result.hidden} ELSE {}

Init ==
    \E a \in CtorArgs :
        /\ self = MakeSelf(a)
        /\ rnns = IF CtorRaises(a) THEN <<>> ELSE MakeRnns(a)
        /\ params = IF CtorRaises(a) THEN NoParams ELSE MakeParams(a)
        /\ result = Returned("__init__", IF CtorRaises(a) THEN 31 ELSE 0, <<>>,
                             NoValue, <<>>, <<>>, <<>>, 0, <<>>, <<>>, <<>>, 0,
                             FALSE, FALSE, FALSE, NoParams, NoParams)
        /\ head = NoHead

\* model.mc_eval = v, by the caller, between calls.
SetMcEval ==
    /\ self.ok
    /\ self' = [self EXCEPT !.mc_eval = ~self.mc_eval]
    /\ UNCHANGED <<rnns, params, result, head>>

\* model.init_hidden(bsz)
DoInitHidden ==
    /\ self.ok
    /\ \E bsz \in 1..MaxBatch :
         result' = Returned("init_hidden", 0, <<>>, NoValue,
                            InitHidden(self, bsz), <<>>, <<>>, 1, <<>>, <<>>,
                            <<>>, bsz, self.mc_eval, FALSE, FALSE, params,
                            params)
    /\ UNCHANGED <<self, rnns, params, head>>

\* What the caller of a forward call gets (lines 128-130): two values, or
\* four with return_h; nothing when the call raised.  f is the call's state
\* when it ends.
ForwardResult(f, s, p, input, hidden, return_h, return_prob) ==
    IF f.err # 0
    THEN Returned("forward", f.err, f.log, NoValue, <<>>, <<>>, <<>>, 0,
                  hidden, f.hidden, input, 0, s.mc_eval, return_h, return_prob,
                  p, p)
    ELSE Returned("forward", 0, f.log, f.model_output, f.new_hidden,
                  IF return_h THEN f.raw_outputs ELSE <<>>,
                  IF return_h THEN f.outputs ELSE <<>>,
                  IF return_h THEN 4 ELSE 2,
                  hidden, f.hidden, input, 0, s.mc_eval, return_h, return_prob,
                  p, p)

\* model(input, hidden, return_h, return_prob) on SeqLen x b token ids
DoForward ==
    /\ self.ok
    /\ \E b \in 1..MaxBatch, return_prob \in BOOLEAN :
         \E hidden \in CallerLists(self, b) \cup Carried :
            \E f \in {Forward(self, rnns, <<SeqLen, b>>, hidden, return_prob)} :
                \E return_h \in BOOLEAN :
                    /\ rnns' = f.rn
                    /\ result' = ForwardResult(f, self, params, <<SeqLen, b>>,
                                               hidden, return_h, return_prob)
    /\ UNCHANGED <<self, params, head>>

\* model.init_weights(), called again after construction
DoInitWeights ==
    /\ self.ok
    /\ params.draws + 2 <= MaxDraws
    /\ params' = InitWeightsOn(params)
    /\ UNCHANGED <<self, rnns, result, head>>

\* An in-place write through the embedding's handle (encoder.weight.data)
WriteEncoder ==
    /\ self.ok
    /\ params.draws + 1 <= MaxDraws
    /\ params' = [params EXCEPT !.buf[params.encoder] = params.draws + 1,
                                !.draws = params.draws + 1]
    /\ UNCHANGED <<self, rnns, result, head>>

\* An in-place write through the decoder's handle (decoder.weight.data)
WriteDecoder ==
    /\ self.ok
    /\ params.draws + 1 <= MaxDraws
    /\ params' = [params EXCEPT !.buf[params.decoder] = params.draws + 1,
                                !.draws = params.draws + 1]
    /\ UNCHANGED <<self, rnns, result, head>>

\* The calls on a model: mode toggles, init_hidden and forward calls.
Next ==
    \/ SetMcEval
    \/ DoInitHidden
    \/ DoForward

Spec == Init /\ [][Next]_vars

\* The parameters of a model: in-place writes through either handle, and
\* init_hidden, which reads a parameter.
NextParams ==
    \/ DoInitWeights
    \/ WriteEncoder
    \/ WriteDecoder
    \/ DoInitHidden

SpecParams == Init /\ [][NextParams]_vars

\* ------------------------------------------------- the head's inputs
\* The model whose head is computed on numbers: one layer, NumExperts
\* experts, ninp = 2, nhidlast = 1, the signature's default probabilities.
HeadPreset ==
    [ntoken |-> VocabSize, ninp |-> 2, nhid |-> 1, nhidlast |-> 1,
     dropout |-> 50, dropouth |-> 50, dropouti |-> 50, dropoute |-> 10,
     wdrop |-> 0, ldropout |-> 50]

HeadArgs ==
    [hp |-> HeadPreset, nlayers |-> 1, n_experts |-> NumExperts,
     tie_weights |-> FALSE]

\* (time, batch) of the token matrix the head is computed for.
HeadShape == <<2, 2>>

\* The last layer's raw outputs: every 0/1 tensor of shape (time, batch, 1).
RawOutputs ==
    {[shape |-> <<HeadShape[1], HeadShape[2], HeadPreset.nhidlast>>, data |-> d] :
        d \in [1..(HeadShape[1] * HeadShape[2] * HeadPreset.nhidlast) -> {0, 1}]}

\* Keep-masks of n elements: all kept, and every c-th element dropped
\* starting with the first.
KeepMasks(n, c) ==
    {[k \in 1..n |-> 1], [k \in 1..n |-> IF (k - 1) % c = 0 THEN 0 ELSE 1]}

\* Weights of the latent projection (n rows of one input): four sign
\* patterns; its bias: all 0 or all 1.
LatentWeights(n) ==
    {[j \in 1..n |-> <<1>>], [j \in 1..n |-> <<-1>>],
     [j \in 1..n |-> IF j % 2 = 0 THEN <<1>> ELSE <<-1>>],
     [j \in 1..n |-> IF ((j - 1) \div 2) % 2 = 0 THEN <<1>> ELSE <<-1>>]}

LatentBiases(n) == {[j \in 1..n |-> 0], [j \in 1..n |-> 1]}

\* Weights of the prior projection (no bias): 0 or 1 per expert.
PriorWeights(n) == [1..n -> {<<0>>, <<1>>}]

\* The decoder's weight (ntoken rows of ninp) and its bias, which
\* init_weights fills with 0.
DecoderWeight(nout, nin) ==
    [v \in 1..nout |-> [i \in 1..nin |-> IF (v + i) % 2 = 0 THEN 1 ELSE 0]]

DecoderBias(nout) == [v \in 1..nout |-> 0]

\* The state after constructing the head's model and setting mc_eval, with
\* the head's inputs drawn.
InitHead ==
    LET nf == HeadArgs.n_experts * HeadPreset.ninp
    IN  /\ self = [MakeSelf(HeadArgs) EXCEPT !.mc_eval = TRUE]
        /\ rnns = MakeRnns(HeadArgs)
        /\ params = MakeParams(HeadArgs)
        /\ result = Returned("__init__", 0, <<>>, NoValue, <<>>, <<>>, <<>>, 0,
                             <<>>, <<>>, <<>>, 0, FALSE, FALSE, FALSE, NoParams,
                             NoParams)
        /\ \E raw \in RawOutputs,
              m1 \in KeepMasks(HeadShape[2] * HeadPreset.nhidlast, 2),
              m2 \in KeepMasks(HeadShape[2] * nf, 3),
              w1 \in LatentWeights(nf), b1 \in LatentBiases(nf),
              w3 \in PriorWeights(HeadArgs.n_experts) :
                head = [NoHead EXCEPT
                          !.phase = "input", !.raw = raw, !.m1 = m1, !.m2 = m2,
                          !.w1 = w1, !.b1 = b1, !.w3 = w3,
                          !.wd = DecoderWeight(HeadPreset.ntoken, HeadPreset.ninp),
                          !.bd = DecoderBias(HeadPreset.ntoken)]

\* The head of a forward call with return_prob, on the drawn inputs.
ApplyHead ==
    /\ head.phase = "input"
    /\ head' = HeadValues(self, head)
    /\ UNCHANGED <<self, rnns, params, result>>

NextHead == ApplyHead

SpecHead == InitHead /\ [][NextHead]_vars

\* ------------------------------------------------------------------ claims
IsForward == result.op = "forward"

ForwardOk == result.op = "forward" /\ result.err = 0

Log == result.log

RnnOps == {"LSTM", "WeightDrop"}

DropoutOps == {"embedded_dropout", "lockdrop"} \cup RnnOps

\* The log entries of the recurrent layer l, and of the given source line.
RnnEntries(l) == {i \in 1..Len(Log) : Log[i].op \in RnnOps /\ Log[i].layer = l}

AtLine(n) == {i \in 1..Len(Log) : Log[i].line = n}

\* C1: in every forward call, also one that raised, each dropout-capable
\* component that ran (embedding dropout, each lockdrop application, each
\* recurrent layer at the moment it is invoked) observed the mc_eval value the
\* model held for that call.
C1_McEvalThreaded ==
    IsForward =>
        \A i \in 1..Len(Log) :
            Log[i].op \in DropoutOps => Log[i].mc = <<result.mc>>

\* C1 witness: a forward call over two layers ran to the end with mc_eval set
\* (the model starts with it clear, so it was toggled), on a hidden list
\* carried over from an earlier forward call.
C1_Witness ==
    /\ ForwardOk /\ result.mc = TRUE /\ Len(rnns) = 2
    /\ RnnEntries(0) # {} /\ RnnEntries(1) # {}
    /\ result.arg[1][1].src = "rnn"

\* C2: layer l is given exactly the caller's hidden[l], once; the returned
\* list has one entry per layer, entry l being the state layer l produced from
\* hidden[l]; and the caller's list is the same after the call as before.
C2_HiddenReadOnceReplacedOnce ==
    IsForward =>
        /\ result.arg_after = result.arg
        /\ \A i \in 1..Len(Log) :
              Log[i].op \in RnnOps =>
                  /\ Log[i].layer + 1 <= Len(result.arg)
                  /\ Log[i].hid = result.arg[Log[i].layer + 1]
        /\ \A l \in 0..(Len(rnns) - 1) : Cardinality(RnnEntries(l)) <= 1
        /\ result.err = 0 =>
              /\ Len(result.hidden) = Len(rnns)
              /\ \A l \in 0..(Len(rnns) - 1) :
                    /\ Cardinality(RnnEntries(l)) = 1
                    /\ \A k \in 1..2 :
                          /\ result.hidden[l + 1][k].src = "rnn"
                          /\ result.hidden[l + 1][k].layer = l
                          /\ result.hidden[l + 1][k].gen =
                                result.arg[l + 1][k].gen + 1

\* C2 witness: a two-layer forward call that returned, on a list carried over
\* from an earlier call (its entries were themselves produced by layers).
C2_Witness ==
    /\ ForwardOk /\ Len(rnns) = 2 /\ Len(result.hidden) = 2
    /\ result.arg[1][1].src = "rnn" /\ result.arg[2][1].src = "rnn"

\* C3: with return_h and N >= 1 layers, raw_outputs has N entries, entry l the
\* output of layer l itself; outputs has N entries: for l < N-1 entry l is
\* raw_outputs[l] after lockdrop with probability dropouth and is the input of
\* layer l+1, the last is raw_outputs[N-1] after lockdrop with probability
\* dropout; hidden dropout (line 100) is never applied to the last output.
C3_RawAndDroppedOutputs ==
    (ForwardOk /\ result.return_h /\ Len(rnns) >= 1) =>
        LET N == Len(rnns)
            raws == result.raw_outputs
            outs == result.outputs
        IN  /\ result.nret = 4
            /\ Len(raws) = N
            /\ Len(outs) = N
            /\ \A l \in 0..(N - 1) :
                  \E i \in RnnEntries(l) : Log[i].out = raws[l + 1]
            /\ \A l \in 0..(N - 2) :
                  /\ \E i \in AtLine(100) :
                        /\ Log[i].op = "lockdrop"
                        /\ Log[i].p = self.dropouth
                        /\ Log[i].in = raws[l + 1].id
                        /\ Log[i].out = outs[l + 1]
                  /\ \A i \in RnnEntries(l + 1) : Log[i].in = outs[l + 1].id
            /\ \E i \in AtLine(105) :
                  /\ Log[i].op = "lockdrop"
                  /\ Log[i].p = self.dropout
                  /\ Log[i].in = raws[N].id
                  /\ Log[i].out = outs[N]
            /\ \A i \in AtLine(100) : Log[i].in # raws[N].id

\* C3 witness: a two-layer model whose hidden and output dropout
\* probabilities differ returned both lists.
C3_Witness ==
    /\ ForwardOk /\ result.return_h /\ Len(rnns) = 2
    /\ self.dropouth # self.dropout
    /\ Len(result.outputs) = 2

\* C5: with weight tying, the decoder's weight and the embedding table are one
\* tensor from the end of construction on: whatever is written through either
\* handle, both handles read the same value.
C5_TiedWeightsShared ==
    (self.ok /\ self.tie_weights) =>
        /\ params.decoder = params.encoder
        /\ params.buf[params.decoder] = params.buf[params.encoder]

\* C5 witness: a tied model whose weight has been written again after
\* construction (construction makes two draws).
C5_Witness ==
    /\ self.ok /\ self.tie_weights
    /\ params.draws > 2
    /\ params.buf[params.encoder] = params.draws

\* C6: a non-positive layer count or expert count is rejected at
\* construction, so that no model object exists with one.
C6_NonPositiveCountsRejected ==
    (self.nlayers <= 0 \/ self.n_experts <= 0) => ~self.ok

\* The hidden list of the last forward call disagrees with the model or with
\* the input: another length than nlayers, or an entry of another batch size.
HiddenInconsistent ==
    \/ Len(result.arg) # Len(rnns)
    \/ \E i \in 1..Len(result.arg) :
          \E k \in 1..2 : result.arg[i][k].shape[2] # result.input[2]

\* C7: a forward call whose hidden list has another length than the number of
\* layers, or an entry of another batch size than the input, raises
\* before any embedding lookup, dropout or recurrent layer has run.
C7_ShapeErrorBeforeAnyWork ==
    (IsForward /\ HiddenInconsistent) => (result.err # 0 /\ Log = <<>>)

\* C8: init_hidden(B) returns one (hidden, cell) pair per layer, both members
\* of pair l of shape (1, B, nhid), or (1, B, nhidlast) for the last layer,
\* all zeros, and leaves the parameters as they were.
C8_InitHiddenShapes ==
    result.op = "init_hidden" =>
        /\ Len(result.hidden) = Len(rnns)
        /\ \A i \in 1..Len(result.hidden) :
              \A k \in 1..2 :
                  /\ result.hidden[i][k].shape =
                        <<1, result.bsz,
                          IF i < Len(rnns) THEN self.nhid ELSE self.nhidlast>>
                  /\ result.hidden[i][k].src = "zero"
        /\ result.params_after = result.params_before

\* C8 witness: init_hidden on a two-layer model whose last layer is wider
\* than the first, after a weight has been rewritten.
C8_Witness ==
    /\ result.op = "init_hidden" /\ Len(result.hidden) = 2
    /\ self.nhid # self.nhidlast
    /\ result.params_before.draws > 2

\* C9: the tensor returned is the mixture itself, nothing having been applied
\* to it, with return_prob; otherwise log(prob + 1e-8), the floor being the
\* only operation between the mixture and the logarithm.  Either way its
\* shape is (time, batch, ntoken).
C9_ProbOrFlooredLog ==
    ForwardOk =>
        \E m \in AtLine(118) :
            /\ Log[m].op = "mix"
            /\ result.model_output.shape =
                  <<result.input[1], result.input[2], self.ntoken>>
            /\ IF result.return_prob
               THEN /\ Len(Log) = m
                    /\ result.model_output.id = Log[m].out.id
               ELSE /\ Len(Log) = m + 2
                    /\ Log[m + 1].op = "add_(1e-8)"
                    /\ Log[m + 1].in = Log[m].out.id
                    /\ Log[m + 2].op = "log"
                    /\ Log[m + 2].in = Log[m + 1].out.id
                    /\ result.model_output.id = Log[m + 2].out.id

\* C9 witness: one call returned raw probabilities for a batch of two.
C9_Witness ==
    /\ ForwardOk /\ result.return_prob /\ result.input[2] = 2
    /\ result.model_output.shape[1] = SeqLen

\* ------------------------------------------------- claims about the head
HeadDone == head.phase = "done"

NT == HeadShape[1]

NB == HeadShape[2]

NE == self.n_experts

NV == self.ntoken

One == <<1, 1>>

RLeq(x, y) == x[1] * y[2] <= y[1] * x[2]

\* Element (q, e) of the prior, (q, e, v) of the per-expert distributions and
\* (q, v) of the mixture, q from 0 and e, v from 1.
PriorAt(q, e) == head.prior.data[q * NE + e]

ExpertAt(q, e, v) == head.experts.data[(q * NE + e - 1) * NV + v]

ProbAt(q, v) == head.prob.data[q * NV + v]

\* C4: for each position the prior sums to 1 over the experts, each expert's
\* distribution sums to 1 over the vocabulary, and so does the mixture that is
\* returned, of shape (time, batch, ntoken); the prior's weights are not
\* negative and each mixed probability lies between the smallest and the
\* largest of the experts' (a convex combination).
C4_DistributionsSumToOne ==
    HeadDone =>
        /\ head.prior.shape = <<NT * NB, NE>>
        /\ head.experts.shape = <<NT * NB, NE, NV>>
        /\ head.model_output.shape = <<NT, NB, NV>>
        /\ head.model_output.data = head.prob.data
        /\ \A q \in 0..(NT * NB - 1) :
              /\ RSum([e \in 1..NE |-> PriorAt(q, e)]) = One
              /\ \A e \in 1..NE :
                    /\ PriorAt(q, e)[1] >= 0
                    /\ RSum([v \in 1..NV |-> ExpertAt(q, e, v)]) = One
              /\ RSum([v \in 1..NV |-> ProbAt(q, v)]) = One
              /\ \A v \in 1..NV :
                    /\ \E e \in 1..NE : RLeq(ExpertAt(q, e, v), ProbAt(q, v))
                    /\ \E e \in 1..NE : RLeq(ProbAt(q, v), ExpertAt(q, e, v))

\* C4 witness: at some position the prior is not uniform and two experts
\* disagree, so that the mixture is a proper one.
C4_Witness ==
    /\ HeadDone
    /\ \E q \in 0..(NT * NB - 1) :
          /\ PriorAt(q, 1) # PriorAt(q, 2)
          /\ ExpertAt(q, 1, 1) # ExpertAt(q, 2, 1)
          /\ ProbAt(q, 1) # ExpertAt(q, 1, 1)
          /\ ProbAt(q, 1) # ExpertAt(q, 2, 1)

\* The same quantities computed position by position from the definitions:
\* g is the last layer's output at (t, b) after the output dropout; the prior
\* is the softmax over the experts of the prior projection of g; expert e's
\* latent is the slice e of the masked tanh of the latent projection of g; its
\* distribution the softmax over the vocabulary of the decoder's logits.
RefG(t, b) == head.raw.data[t * NB + b + 1] * head.m1[b + 1]

RefPriorLogit(t, b, e) == head.w3[e][1] * RefG(t, b)

RefPrior(t, b, e) ==
    RDiv(Exp2(RefPriorLogit(t, b, e)),
         RSum([x \in 1..NE |-> Exp2(RefPriorLogit(t, b, x))]))

RefLatent(t, b, e, i) ==
    LET j == (e - 1) * self.ninp + i
    IN  head.m2[b * NE * self.ninp + j]
            * SignOf(head.w1[j][1] * RefG(t, b) + head.b1[j])

RefLogit(t, b, e, v) ==
    ISum([i \in 1..self.ninp |-> head.wd[v][i] * RefLatent(t, b, e, i)])
        + head.bd[v]

RefExpert(t, b, e, v) ==
    RDiv(Exp2(RefLogit(t, b, e, v)),
         RSum([x \in 1..NV |-> Exp2(RefLogit(t, b, e, x))]))

\* C10: at row t*batch+b, the prior's entry e is the prior weight of expert e
\* at (t, b), the per-expert entry (e, v) is the softmax over the vocabulary
\* of the decoder's logits of expert e's latent slice at (t, b), and the
\* mixture's entry v is the sum over e of their products: the views pair
\* every expert distribution with the prior weight of its own position and
\* expert, and prior and latent both come from the tensor after the output
\* dropout.
C10_MixturePairsPositionAndExpert ==
    HeadDone =>
        /\ head.prob.shape = <<NT * NB, NV>>
        /\ \A t \in 0..(NT - 1), b \in 0..(NB - 1) :
              /\ \A e \in 1..NE :
                    /\ PriorAt(t * NB + b, e) = RefPrior(t, b, e)
                    /\ \A v \in 1..NV :
                          ExpertAt(t * NB + b, e, v) = RefExpert(t, b, e, v)
              /\ \A v \in 1..NV :
                    ProbAt(t * NB + b, v) =
                        RSum([e \in 1..NE |->
                                RMul(PriorAt(t * NB + b, e),
                                     ExpertAt(t * NB + b, e, v))])

\* C10 witness: the output dropout changed the tensor (a kept-out element was
\* 1), the prior depends on it, and two positions get different mixtures.
C10_Witness ==
    /\ HeadDone
    /\ head.output # head.raw
    /\ head.w3[1] # head.w3[2]
    /\ \E q1, q2 \in 0..(NT * NB - 1) : ProbAt(q1, 1) # ProbAt(q2, 1)
====
